---------------------------- MODULE Spec2Model ----------------------------
(***************************************************************************)
(* go-dhcp-leases: a model of the lease-log reader/reconciler              *)
(* (readLeasesFile), the vendor store builder (createOuiDB, in its sqlite  *)
(* and its bolt revision) and the report (printLeaseMap).                  *)
(*                                                                         *)
(* Lines of the two input files are TLA+ strings and are taken apart the   *)
(* way the Go code takes them apart (TrimSpace, HasPrefix, Split, ...).    *)
(***************************************************************************)
EXTENDS Integers, Sequences, FiniteSets, TLC

VARIABLES
    driver,                     \* "sqlite" | "bolt": which revision of the store code runs
    mode,                       \* "createdb" | "report": os.Args of the current run
    pc,                         \* position of the current run
    exit,                       \* "" while running, else "ok" | "fatal" | "panic"
    store,                      \* ./oui.db on disk; survives from run to run
    store0,                     \* ./oui.db as it was when the current run started
    ouiFile,                    \* the registry file's lines (createOuiDB)
    ouiLine,                    \* lineNumber of createOuiDB
    insertedKeys,               \* createOuiDB's insertedKeys
    ouiToOrganizationToInsert,  \* createOuiDB's pending batch (bolt revision)
    leasesFile,                 \* the lease log's lines, as far as the scanner has been given them
    nChunks,                    \* chunks of lines leasesFile is made of so far
    lineNumber,                 \* lineNumber of readLeasesFile
    withinLease,
    currentIP,
    currentLeaseInfo,           \* <<>> is nil, <<r>> points to r
    leaseMap,                   \* ipString -> leaseInfo
    ipAddresses,                \* printLeaseMap's sorted slice
    rowIndex,                   \* rows of ipAddresses already handled
    output,                     \* what printLeaseMap has logged so far
    leaseStates                 \* the classifier's result: <<>>, or [now, abandoned, state]

vars == <<driver, mode, pc, exit, store, store0, ouiFile, ouiLine, insertedKeys,
          ouiToOrganizationToInsert, leasesFile, nChunks, lineNumber, withinLease,
          currentIP, currentLeaseInfo, leaseMap, ipAddresses, rowIndex, output,
          leaseStates>>

storeVars == <<store, store0>>
buildVars == <<ouiFile, ouiLine, insertedKeys, ouiToOrganizationToInsert>>
inputVars == <<leasesFile, nChunks>>
scanVars  == <<lineNumber, withinLease, currentIP, currentLeaseInfo, leaseMap>>
readVars  == <<inputVars, scanVars>>
printVars == <<ipAddresses, rowIndex, output, leaseStates>>

-----------------------------------------------------------------------------
(* Bounds of the model.                                                    *)

\* Chunks (blocks or stray lines) per lease log explored for readLeasesFile.
MaxChunks == 3
\* Chunks per lease log in the whole-program specification.
MaxReportChunks == 2
\* Lines per vendor registry.
MaxOuiLines == 3
\* Chunks per lease log explored for the classifier.
MaxClassifyChunks == 2
\* Entries per write transaction of the bolt revision: stands for the
\* program's ouiDBWriteTXSize, 1000, scaled to the registries explored.
ouiDBWriteTXSize == 2

-----------------------------------------------------------------------------
(* strings: the Go library calls the code makes.                           *)

Char(s, i) == SubSeq(s, i, i)

\* strings.HasPrefix
HasPrefix(s, p) == Len(s) >= Len(p) /\ SubSeq(s, 1, Len(p)) = p

\* strings.HasSuffix
HasSuffix(s, p) == Len(s) >= Len(p) /\ SubSeq(s, Len(s) - Len(p) + 1, Len(s)) = p

IsSpace(c) == c \in {" ", "\t", "\r"}

RECURSIVE TrimLeft(_)
TrimLeft(s) ==
    IF Len(s) > 0 /\ IsSpace(Char(s, 1)) THEN TrimLeft(SubSeq(s, 2, Len(s))) ELSE s

RECURSIVE TrimRight(_)
TrimRight(s) ==
    IF Len(s) > 0 /\ IsSpace(Char(s, Len(s))) THEN TrimRight(SubSeq(s, 1, Len(s) - 1)) ELSE s

\* strings.TrimSpace
TrimSpace(s) == TrimRight(TrimLeft(s))

RECURSIVE SplitFrom(_, _, _, _)
SplitFrom(s, sep, i, start) ==
    IF i > Len(s) THEN << SubSeq(s, start, Len(s)) >>
    ELSE IF Char(s, i) = sep
         THEN << SubSeq(s, start, i - 1) >> \o SplitFrom(s, sep, i + 1, i + 1)
         ELSE SplitFrom(s, sep, i + 1, start)

\* strings.Split with a separator of one character
Split(s, sep) == SplitFrom(s, sep, 1, 1)

Digits == {"0", "1", "2", "3", "4", "5", "6", "7", "8", "9"}
LowerHex == {"a", "b", "c", "d", "e", "f"}
UpperHex == {"A", "B", "C", "D", "E", "F"}

DigitVal(c) ==
    CASE c = "0" -> 0 [] c = "1" -> 1 [] c = "2" -> 2 [] c = "3" -> 3 [] c = "4" -> 4
      [] c = "5" -> 5 [] c = "6" -> 6 [] c = "7" -> 7 [] c = "8" -> 8 [] c = "9" -> 9

DigitChar(d) ==
    CASE d = 0 -> "0" [] d = 1 -> "1" [] d = 2 -> "2" [] d = 3 -> "3" [] d = 4 -> "4"
      [] d = 5 -> "5" [] d = 6 -> "6" [] d = 7 -> "7" [] d = 8 -> "8" [] d = 9 -> "9"

RECURSIVE AllIn(_, _)
AllIn(s, set) == Len(s) = 0 \/ (Char(s, 1) \in set /\ AllIn(SubSeq(s, 2, Len(s)), set))

RECURSIVE Atoi(_)
Atoi(s) == IF Len(s) = 0 THEN 0
           ELSE 10 * Atoi(SubSeq(s, 1, Len(s) - 1)) + DigitVal(Char(s, Len(s)))

RECURSIVE Itoa(_)
Itoa(n) == IF n < 10 THEN DigitChar(n) ELSE Itoa(n \div 10) \o DigitChar(n % 10)

LowerChar(c) ==
    CASE c = "A" -> "a" [] c = "B" -> "b" [] c = "C" -> "c" [] c = "D" -> "d"
      [] c = "E" -> "e" [] c = "F" -> "f" [] OTHER -> c

RECURSIVE ToLower(_)
\* strings.ToLower, on the letters that occur in hexadecimal text
ToLower(s) == IF Len(s) = 0 THEN "" ELSE LowerChar(Char(s, 1)) \o ToLower(SubSeq(s, 2, Len(s)))

\* isHexDigits
isHexDigits(s) == AllIn(s, Digits \cup LowerHex \cup UpperHex)


-----------------------------------------------------------------------------
(* time.Time, net.IP and net.HardwareAddr values and their parsers.        *)

\* A time.Time is <<year, month, day, hour, minute, second>>; the zero Time
\* (a field never assigned) is January 1, year 1, 00:00:00.
ZeroTime == <<1, 1, 1, 0, 0, 0>>

RECURSIVE LexLess(_, _)
LexLess(a, b) ==
    /\ Len(b) > 0
    /\ \/ Len(a) = 0
       \/ a[1] < b[1]
       \/ a[1] = b[1] /\ LexLess(Tail(a), Tail(b))

\* t.After(u)
After(t, u) == LexLess(u, t)

IsLeap(y) == (y % 4 = 0) /\ ((y % 100 # 0) \/ (y % 400 = 0))

DaysIn(m, y) ==
    IF m = 2 THEN (IF IsLeap(y) THEN 29 ELSE 28)
    ELSE IF m \in {4, 6, 9, 11} THEN 30 ELSE 31

\* time.ParseInLocation(leaseTimeFormatString, s, time.Local) for the layout
\* "2006/01/02 15:04:05;", on strings of the layout's own width; the result is
\* [err, t].  Orders of local times are taken as the orders of their fields.
ParseInLocation(s) ==
    LET shape == /\ Len(s) = 20
                 /\ AllIn(SubSeq(s, 1, 4), Digits)
                 /\ Char(s, 5) = "/"
                 /\ AllIn(SubSeq(s, 6, 7), Digits)
                 /\ Char(s, 8) = "/"
                 /\ AllIn(SubSeq(s, 9, 10), Digits)
                 /\ Char(s, 11) = " "
                 /\ AllIn(SubSeq(s, 12, 13), Digits)
                 /\ Char(s, 14) = ":"
                 /\ AllIn(SubSeq(s, 15, 16), Digits)
                 /\ Char(s, 17) = ":"
                 /\ AllIn(SubSeq(s, 18, 19), Digits)
                 /\ Char(s, 20) = ";"
    IN  IF ~shape THEN [err |-> TRUE, t |-> ZeroTime]
        ELSE LET y  == Atoi(SubSeq(s, 1, 4))
                 mo == Atoi(SubSeq(s, 6, 7))
                 d  == Atoi(SubSeq(s, 9, 10))
                 h  == Atoi(SubSeq(s, 12, 13))
                 mi == Atoi(SubSeq(s, 15, 16))
                 se == Atoi(SubSeq(s, 18, 19))
                 inRange == /\ mo \in 1..12
                            /\ h < 24 /\ mi < 60 /\ se < 60
                            /\ d >= 1 /\ d <= DaysIn(mo, y)
             IN  IF inRange THEN [err |-> FALSE, t |-> <<y, mo, d, h, mi, se>>]
                 ELSE [err |-> TRUE, t |-> ZeroTime]

\* A net.IP is its bytes; the nil IP is the empty sequence.
NilIP == << >>

V4InV6(a, b, c, d) == <<0, 0, 0, 0, 0, 0, 0, 0, 0, 0, 255, 255, a, b, c, d>>

Loopback6 == <<0, 0, 0, 0, 0, 0, 0, 0, 0, 0, 0, 0, 0, 0, 0, 1>>

\* One decimal field of a dotted IPv4 literal: 1 to 3 digits, no leading
\* zero, at most 255.
IsV4Field(f) ==
    /\ Len(f) \in 1..3
    /\ AllIn(f, Digits)
    /\ (Len(f) > 1 => Char(f, 1) # "0")
    /\ Atoi(f) <= 255

ParseIPv4(s) ==
    LET f == Split(s, ".")
    IN  IF Len(f) = 4 /\ \A i \in 1..4 : IsV4Field(f[i])
        THEN V4InV6(Atoi(f[1]), Atoi(f[2]), Atoi(f[3]), Atoi(f[4]))
        ELSE NilIP

\* net.ParseIP: the 16-byte form of an address, nil for text that is no
\* address.  Of the IPv6 forms the loopback "::1" and the IPv4-mapped
\* "::ffff:a.b.c.d" are modelled.
ParseIP(s) ==
    IF s = "::1" THEN Loopback6
    ELSE IF HasPrefix(s, "::ffff:") THEN ParseIPv4(SubSeq(s, 8, Len(s)))
    ELSE ParseIPv4(s)

\* net.IP.String
IPString(ip) ==
    IF Len(ip) = 0 THEN "<nil>"
    ELSE IF SubSeq(ip, 1, 12) = SubSeq(V4InV6(0, 0, 0, 0), 1, 12)
         THEN Itoa(ip[13]) \o "." \o Itoa(ip[14]) \o "." \o Itoa(ip[15]) \o "." \o Itoa(ip[16])
         ELSE IF ip = Loopback6 THEN "::1" ELSE "?"

\* bytes.Compare(a, b) < 0
BytesLess(a, b) == LexLess(a, b)

\* A net.HardwareAddr is held as HardwareAddr.String() prints it (lower-case
\* hexadecimal pairs joined by colons); nil is "", which is also what
\* String() of a nil address returns.
NilMAC == ""

\* net.ParseMAC on the 17-character forms xx:xx:xx:xx:xx:xx and
\* xx-xx-xx-xx-xx-xx; the result is [err, mac].
ParseMAC(s) ==
    LET sepOK == /\ Char(s, 3) \in {":", "-"}
                 /\ \A i \in {6, 9, 12, 15} : Char(s, i) = Char(s, 3)
        hexOK == \A i \in {1, 4, 7, 10, 13, 16} : isHexDigits(SubSeq(s, i, i + 1))
    IN  IF Len(s) = 17 /\ sepOK /\ hexOK
        THEN [err |-> FALSE,
              mac |-> ToLower(SubSeq(s, 1, 2) \o ":" \o SubSeq(s, 4, 5) \o ":"
                              \o SubSeq(s, 7, 8) \o ":" \o SubSeq(s, 10, 11) \o ":"
                              \o SubSeq(s, 13, 14) \o ":" \o SubSeq(s, 16, 17))]
        ELSE [err |-> TRUE, mac |-> NilMAC]

\* HardwareAddr.String
MACString(mac) == mac

-----------------------------------------------------------------------------
(* readLeasesFile                                                          *)

\* &leaseInfo{ipAddress: currentIP, count: 1}
NewLeaseInfo(ip) ==
    [ipAddress |-> ip, count |-> 1, startTime |-> ZeroTime, endTime |-> ZeroTime,
     clttTime |-> ZeroTime, macAddress |-> NilMAC, hostname |-> ""]

\* MergeLease with the incumbent's count lost when the new block replaces it.
MergeLease_DropsCount(cur, ip, lm) ==
    LET ipString == IPString(ip)
    IN  IF ipString \in DOMAIN lm
        THEN LET existingLeaseInfo == lm[ipString]
                 totalCount == cur.count + existingLeaseInfo.count
             IN  IF After(cur.endTime, existingLeaseInfo.endTime)
                 THEN [lm EXCEPT ![ipString] = cur]
                 ELSE [lm EXCEPT ![ipString].count = totalCount]
        ELSE lm @@ (ipString :> cur)

\* MergeLease with the count left as it was when the incumbent is kept.
MergeLease_KeptForgetsCount(cur, ip, lm) ==
    LET ipString == IPString(ip)
    IN  IF ipString \in DOMAIN lm
        THEN LET existingLeaseInfo == lm[ipString]
                 totalCount == cur.count + existingLeaseInfo.count
             IN  IF After(cur.endTime, existingLeaseInfo.endTime)
                 THEN [lm EXCEPT ![ipString] = [cur EXCEPT !.count = totalCount]]
                 ELSE lm
        ELSE lm @@ (ipString :> cur)

\* MergeLease with an equal endTime replacing the incumbent too.
MergeLease_TieReplaces(cur, ip, lm) ==
    LET ipString == IPString(ip)
    IN  IF ipString \in DOMAIN lm
        THEN LET existingLeaseInfo == lm[ipString]
                 totalCount == cur.count + existingLeaseInfo.count
             IN  IF ~After(existingLeaseInfo.endTime, cur.endTime)
                 THEN [lm EXCEPT ![ipString] = [cur EXCEPT !.count = totalCount]]
                 ELSE [lm EXCEPT ![ipString].count = totalCount]
        ELSE lm @@ (ipString :> cur)

\* MergeLease with the newest block always replacing the incumbent.
MergeLease_LastWins(cur, ip, lm) ==
    LET ipString == IPString(ip)
    IN  IF ipString \in DOMAIN lm
        THEN [lm EXCEPT ![ipString] = [cur EXCEPT !.count = cur.count + lm[ipString].count]]
        ELSE lm @@ (ipString :> cur)

\* MergeLease with the comparison of the endTimes inverted.
MergeLease_InvertedCompare(cur, ip, lm) ==
    LET ipString == IPString(ip)
    IN  IF ipString \in DOMAIN lm
        THEN LET existingLeaseInfo == lm[ipString]
                 totalCount == cur.count + existingLeaseInfo.count
             IN  IF After(existingLeaseInfo.endTime, cur.endTime)
                 THEN [lm EXCEPT ![ipString] = [cur EXCEPT !.count = totalCount]]
                 ELSE [lm EXCEPT ![ipString].count = totalCount]
        ELSE lm @@ (ipString :> cur)

\* The reconciliation at a closing line: cur is the block just closed.
MergeLease(cur, ip, lm) ==
    LET ipString == IPString(ip)
    IN  IF ipString \in DOMAIN lm
        THEN LET existingLeaseInfo == lm[ipString]
                 totalCount == cur.count + existingLeaseInfo.count
             IN  IF After(cur.endTime, existingLeaseInfo.endTime)
                 THEN [lm EXCEPT ![ipString] = [cur EXCEPT !.count = totalCount]]
                 ELSE [lm EXCEPT ![ipString].count = totalCount]
        ELSE lm @@ (ipString :> cur)

\* What one pass of the scan loop's body does to (withinLease, currentIP,
\* currentLeaseInfo, leaseMap) for the raw line `raw`.  how is "ok", "fatal"
\* (logger.Fatalf) or "panic" (an index out of range or a nil dereference).
Same(how, w, ip, cur, lm) ==
    [how |-> how, withinLease |-> w, currentIP |-> ip, currentLeaseInfo |-> cur, leaseMap |-> lm]

\* TimeLine with the in-progress record written through to the lease map.
TimeLine_WritesThrough(line, field, w, ip, cur, lm) ==
    LET split == Split(line, " ")
    IN  IF Len(split) < 4 THEN Same("panic", w, ip, cur, lm)
        ELSE LET r == ParseInLocation(split[3] \o " " \o split[4])
             IN  IF r.err THEN Same("fatal", w, ip, cur, lm)
                 ELSE IF cur = << >> THEN Same("panic", w, ip, cur, lm)
                 ELSE Same("ok", w, ip, << [cur[1] EXCEPT ![field] = r.t] >>,
                           MergeLease([cur[1] EXCEPT ![field] = r.t], ip, lm))

\* starts / ends / cltt: split[2] + " " + split[3], parsed, stored in `field`.
TimeLine(line, field, w, ip, cur, lm) ==
    LET split == Split(line, " ")
    IN  IF Len(split) < 4 THEN Same("panic", w, ip, cur, lm)
        ELSE LET r == ParseInLocation(split[3] \o " " \o split[4])
             IN  IF r.err THEN Same("fatal", w, ip, cur, lm)
                 ELSE IF cur = << >> THEN Same("panic", w, ip, cur, lm)
                 ELSE Same("ok", w, ip, << [cur[1] EXCEPT ![field] = r.t] >>, lm)

\* ScanLine with the in-progress record left in place at the closing line.
ScanLine_KeepsRecordAfterClose(raw, w, ip, cur, lm) ==
    LET line == TrimSpace(raw)
    IN  IF ~w
        THEN IF HasPrefix(line, "lease ") /\ HasSuffix(line, " {")
             THEN LET newIP == ParseIP(Split(line, " ")[2])
                  IN  Same("ok", TRUE, newIP, << NewLeaseInfo(newIP) >>, lm)
             ELSE Same("ok", w, ip, cur, lm)
        ELSE IF HasPrefix(line, "starts") THEN TimeLine(line, "startTime", w, ip, cur, lm)
        ELSE IF HasPrefix(line, "ends") THEN TimeLine(line, "endTime", w, ip, cur, lm)
        ELSE IF HasPrefix(line, "cltt") THEN TimeLine(line, "clttTime", w, ip, cur, lm)
        ELSE IF HasPrefix(line, "hardware ethernet ")
             THEN LET r == ParseMAC(Split(Split(line, " ")[3], ";")[1])
                  IN  IF r.err THEN Same("fatal", w, ip, cur, lm)
                      ELSE IF cur = << >> THEN Same("panic", w, ip, cur, lm)
                      ELSE Same("ok", w, ip, << [cur[1] EXCEPT !.macAddress = r.mac] >>, lm)
        ELSE IF HasPrefix(line, "client-hostname ")
             THEN LET q == Split(line, "\"")
                  IN  IF Len(q) < 2 \/ cur = << >> THEN Same("panic", w, ip, cur, lm)
                      ELSE Same("ok", w, ip, << [cur[1] EXCEPT !.hostname = q[2]] >>, lm)
        ELSE IF HasPrefix(line, "}")
             THEN Same("ok", FALSE, ip, cur,
                       IF cur # << >> THEN MergeLease(cur[1], ip, lm) ELSE lm)
        ELSE Same("ok", w, ip, cur, lm)

ScanLine(raw, w, ip, cur, lm) ==
    LET line == TrimSpace(raw)
    IN  IF ~w
        THEN IF HasPrefix(line, "lease ") /\ HasSuffix(line, " {")
             THEN LET newIP == ParseIP(Split(line, " ")[2])
                  IN  Same("ok", TRUE, newIP, << NewLeaseInfo(newIP) >>, lm)
             ELSE Same("ok", w, ip, cur, lm)
        ELSE IF HasPrefix(line, "starts") THEN TimeLine(line, "startTime", w, ip, cur, lm)
        ELSE IF HasPrefix(line, "ends") THEN TimeLine(line, "endTime", w, ip, cur, lm)
        ELSE IF HasPrefix(line, "cltt") THEN TimeLine(line, "clttTime", w, ip, cur, lm)
        ELSE IF HasPrefix(line, "hardware ethernet ")
             THEN LET r == ParseMAC(Split(Split(line, " ")[3], ";")[1])
                  IN  IF r.err THEN Same("fatal", w, ip, cur, lm)
                      ELSE IF cur = << >> THEN Same("panic", w, ip, cur, lm)
                      ELSE Same("ok", w, ip, << [cur[1] EXCEPT !.macAddress = r.mac] >>, lm)
        ELSE IF HasPrefix(line, "client-hostname ")
             THEN LET q == Split(line, "\"")
                  IN  IF Len(q) < 2 \/ cur = << >> THEN Same("panic", w, ip, cur, lm)
                      ELSE Same("ok", w, ip, << [cur[1] EXCEPT !.hostname = q[2]] >>, lm)
        ELSE IF HasPrefix(line, "}")
             THEN Same("ok", FALSE, ip, << >>,
                       IF cur # << >> THEN MergeLease(cur[1], ip, lm) ELSE lm)
        ELSE Same("ok", w, ip, cur, lm)

-----------------------------------------------------------------------------
(* The lease logs that are explored: concatenations of chunks of lines.    *)

Starts1 == "  starts 1 2024/01/01 00:00:00;"
Ends1   == "  ends 1 2024/01/01 01:00:00;"
Ends2   == "  ends 2 2024/01/02 01:00:00;"
Cltt1   == "  cltt 1 2024/01/01 00:30:00;"
Mac1    == "  hardware ethernet 00:50:C2:00:00:01;"
Mac2    == "  hardware ethernet aa:bb:cc:00:00:02;"
HostA   == "  client-hostname \"alpha\";"
HostB   == "  client-hostname \"beta\";"
Close   == "}"

\* Closed blocks of 10.0.0.5 (one of them under its IPv4-mapped spelling)
\* and of 10.0.0.10.
BlockChunks ==
    { << "lease 10.0.0.5 {", Starts1, Ends1, Cltt1, "  binding state active;", Mac1, HostA, Close >>,
      << "lease 10.0.0.5 {", Ends1, HostB, Close >>,
      << "lease 10.0.0.5 {", Close >>,
      << "lease ::ffff:10.0.0.5 {", Ends2, Mac2, Close >>,
      << "lease 10.0.0.10 {", Ends1, Mac2, HostA, Close >> }

\* Headers whose literal is no address.
BadIPChunks ==
    { << "lease bogus {", Ends1, HostA, Close >>,
      << "lease 10.0.0.256 {", Ends2, HostB, Close >> }

\* A block left open, and lines met outside a block (or, after an open
\* block, inside it).
StrayChunks ==
    { << "lease 10.0.0.10 {", Ends2, HostB >>,
      << Close >>,
      << Ends1, "abandoned;" >> }

\* Lines the run does not survive.
FatalChunks ==
    { << "lease 10.0.0.5 {", "  ends never;", Close >>,
      << "lease 10.0.0.5 {", "  starts 1 2024/13/01 00:00:00;", Close >>,
      << "lease 10.0.0.10 {", "  hardware ethernet zz;", Close >>,
      << "lease 10.0.0.10 {", "  client-hostname none;", Close >> }

LeaseChunks == BlockChunks \cup BadIPChunks \cup StrayChunks \cup FatalChunks

-----------------------------------------------------------------------------
(* The run: main, and readLeasesFile's steps.                              *)

EmptyMap == [k \in {} |-> ""]

NoStore == [file |-> FALSE, bucket |-> FALSE, kv |-> EmptyMap]

Init ==
    /\ driver \in {"sqlite", "bolt"}
    /\ mode \in {"createdb", "report"}
    /\ pc = "main"
    /\ exit = ""
    /\ store = NoStore
    /\ store0 = NoStore
    /\ ouiFile = << >>
    /\ ouiLine = 0
    /\ insertedKeys = {}
    /\ ouiToOrganizationToInsert = EmptyMap
    /\ leasesFile = << >>
    /\ nChunks = 0
    /\ lineNumber = 0
    /\ withinLease = FALSE
    /\ currentIP = NilIP
    /\ currentLeaseInfo = << >>
    /\ leaseMap = EmptyMap
    /\ ipAddresses = << >>
    /\ rowIndex = 0
    /\ output = << >>
    /\ leaseStates = << >>

\* logger.Fatalf / a run-time panic: the process ends here.
Abort(how) == pc' = "exited" /\ exit' = how

\* main
Main ==
    /\ pc = "main"
    /\ pc' = IF mode = "createdb" THEN "createOuiDB" ELSE "readLeasesFile"
    /\ UNCHANGED <<driver, mode, exit, storeVars, buildVars, readVars, printVars>>

\* readLeasesFile up to its scan loop: os.OpenFile succeeds or is fatal.
OpenLeasesFile ==
    /\ pc = "readLeasesFile"
    /\ \/ pc' = "scan" /\ UNCHANGED exit
       \/ Abort("fatal")
    /\ UNCHANGED <<driver, mode, storeVars, buildVars, readVars, printVars>>

\* The log continues with one more chunk of lines (the scanner has consumed
\* all it was given; what follows in the file is any chunk of `chunks`).
MoreInput(chunks, n) ==
    /\ pc = "scan"
    /\ lineNumber = Len(leasesFile)
    /\ nChunks < n
    /\ \E c \in chunks : leasesFile' = leasesFile \o c
    /\ nChunks' = nChunks + 1
    /\ UNCHANGED <<driver, mode, pc, exit, storeVars, buildVars, scanVars, printVars>>

\* One pass of the scan loop.
ReadLine ==
    /\ pc = "scan"
    /\ lineNumber < Len(leasesFile)
    /\ lineNumber' = lineNumber + 1
    /\ LET r == ScanLine(leasesFile[lineNumber + 1], withinLease, currentIP,
                         currentLeaseInfo, leaseMap)
       IN  IF r.how = "ok"
           THEN /\ withinLease' = r.withinLease
                /\ currentIP' = r.currentIP
                /\ currentLeaseInfo' = r.currentLeaseInfo
                /\ leaseMap' = r.leaseMap
                /\ UNCHANGED <<pc, exit>>
           ELSE /\ Abort(r.how)
                /\ UNCHANGED <<withinLease, currentIP, currentLeaseInfo, leaseMap>>
    /\ UNCHANGED <<driver, mode, storeVars, buildVars, inputVars, printVars>>

\* scanner.Scan() stops on a read error: scanner.Err() is fatal.
ScanError ==
    /\ pc = "scan"
    /\ lineNumber < Len(leasesFile)
    /\ Abort("fatal")
    /\ UNCHANGED <<driver, mode, storeVars, buildVars, readVars, printVars>>

\* ScanDone with a block still open at the end of input emitted.
ScanDone_FlushesOpenBlock ==
    /\ pc = "scan"
    /\ lineNumber = Len(leasesFile)
    /\ pc' = "printLeaseMap"
    /\ leaseMap' = IF currentLeaseInfo # << >>
                   THEN MergeLease(currentLeaseInfo[1], currentIP, leaseMap)
                   ELSE leaseMap
    /\ UNCHANGED <<driver, mode, exit, storeVars, buildVars, inputVars, lineNumber,
                   withinLease, currentIP, currentLeaseInfo, printVars>>

\* ScanDone taken while lines of the log are still unread.
ScanDone_BeforeEnd ==
    /\ pc = "scan"
    /\ lineNumber <= Len(leasesFile)
    /\ pc' = "printLeaseMap"
    /\ UNCHANGED <<driver, mode, exit, storeVars, buildVars, readVars, printVars>>

\* End of input: readLeasesFile returns leaseMap.
ScanDone ==
    /\ pc = "scan"
    /\ lineNumber = Len(leasesFile)
    /\ pc' = "printLeaseMap"
    /\ UNCHANGED <<driver, mode, exit, storeVars, buildVars, readVars, printVars>>

\* readLeasesFile alone, on every log of at most MaxChunks chunks of LeaseChunks.
InitLeases == Init /\ mode = "report" /\ driver = "bolt"

NextLeases ==
    \/ Main
    \/ OpenLeasesFile
    \/ MoreInput(LeaseChunks, MaxChunks)
    \/ ReadLine
    \/ ScanError
    \/ ScanDone

SpecLeases == InitLeases /\ [][NextLeases]_vars

-----------------------------------------------------------------------------
(* createOuiDB: the registry lines explored, and the two revisions of the  *)
(* store code.  The store is [file, bucket, kv]: whether ./oui.db exists,  *)
(* whether it holds the oui table (sqlite) or the ouiToOrganization bucket *)
(* (bolt), and the rows or pairs in it.                                    *)

OuiLines ==
    { "0050C2     (base 16)\t\tIEEE Registration Authority",
      "0050c2     (base 16)\t\tAcme",
      "AABBCC     (base 16)\t\tBeta Corp",
      "001122     (base 16)\t\tGamma",
      "00-50-C2   (hex)\t\tIEEE Registration Authority",
      "AABBCC     (base 16)\t\t" }

\* The registry continues with one more line.
MoreOui ==
    /\ pc = "ouiScan"
    /\ ouiLine = Len(ouiFile)
    /\ Len(ouiFile) < MaxOuiLines
    /\ \E l \in OuiLines : ouiFile' = Append(ouiFile, l)
    /\ UNCHANGED <<driver, mode, pc, exit, storeVars, ouiLine, insertedKeys,
                   ouiToOrganizationToInsert, readVars, printVars>>

\* OuiEntry without the test of the first six characters.
OuiEntry_SkipsHexCheck(raw) ==
    LET line == TrimSpace(raw)
    IN  IF Len(line) < 23 THEN [ok |-> FALSE, key |-> "", organization |-> ""]
        ELSE LET ouiString == SubSeq(line, 1, 6)
             IN  [ok |-> TRUE,
                  key |-> ToLower(SubSeq(ouiString, 1, 2) \o ":" \o SubSeq(ouiString, 3, 4)
                                  \o ":" \o SubSeq(ouiString, 5, 6)),
                  organization |-> SubSeq(line, 23, Len(line))]

\* What the scan loop of createOuiDB makes of one registry line: whether it
\* is accepted, and the key and the organization it then stands for.
OuiEntry(raw) ==
    LET line == TrimSpace(raw)
    IN  IF Len(line) < 23 THEN [ok |-> FALSE, key |-> "", organization |-> ""]
        ELSE LET ouiString == SubSeq(line, 1, 6)
             IN  IF ~isHexDigits(ouiString)
                 THEN [ok |-> FALSE, key |-> "", organization |-> ""]
                 ELSE [ok |-> TRUE,
                       key |-> ToLower(SubSeq(ouiString, 1, 2) \o ":" \o SubSeq(ouiString, 3, 4)
                                       \o ":" \o SubSeq(ouiString, 5, 6)),
                       organization |-> SubSeq(line, 23, Len(line))]

\* The pairs of kv with those of p put over them.
PutAll(kv, p) ==
    [k \in DOMAIN kv \cup DOMAIN p |-> IF k \in DOMAIN p THEN p[k] ELSE kv[k]]

\* sqlite revision: sql.Open, CREATE TABLE IF NOT EXISTS.  A failure of
\* Prepare or Exec is fatal and may leave the file created.
CreateTable ==
    /\ pc = "createOuiDB"
    /\ driver = "sqlite"
    /\ \/ /\ store' = [store EXCEPT !.file = TRUE, !.bucket = TRUE]
          /\ pc' = "openOui"
          /\ UNCHANGED exit
       \/ /\ store' \in {store, [store EXCEPT !.file = TRUE]}
          /\ Abort("fatal")
    /\ UNCHANGED <<driver, mode, store0, buildVars, readVars, printVars>>

\* bolt revision: bolt.Open creates the file when there is none.
BoltOpen ==
    /\ pc = "createOuiDB"
    /\ driver = "bolt"
    /\ \/ /\ store' = [store EXCEPT !.file = TRUE]
          /\ pc' = "openOui"
          /\ UNCHANGED exit
       \/ /\ Abort("fatal")
          /\ UNCHANGED store
    /\ UNCHANGED <<driver, mode, store0, buildVars, readVars, printVars>>

\* os.OpenFile(ouiFile): the registry is opened, or the run ends.
OpenOuiFile ==
    /\ pc = "openOui"
    /\ \/ pc' = "ouiScan" /\ UNCHANGED exit
       \/ Abort("fatal")
    /\ UNCHANGED <<driver, mode, storeVars, buildVars, readVars, printVars>>

\* sqlite revision: INSERT INTO oui (oui, organization) VALUES (key,
\* organization).  oui is the table's PRIMARY KEY: the INSERT of a key the
\* table holds already is an error.
SqlInsert(st, key, organization) ==
    IF key \in DOMAIN st.kv
    THEN [how |-> "fatal", store |-> st]
    ELSE [how |-> "ok", store |-> [st EXCEPT !.kv = PutAll(st.kv, key :> organization)]]

\* sqlite revision, one pass of the scan loop: an accepted line whose key
\* this run has not inserted is INSERTed at once; the INSERT fails on a key
\* the table holds already (oui is the PRIMARY KEY), or for the
\* environment's reasons.
SqlScanLine ==
    /\ pc = "ouiScan"
    /\ driver = "sqlite"
    /\ ouiLine < Len(ouiFile)
    /\ ouiLine' = ouiLine + 1
    /\ LET e == OuiEntry(ouiFile[ouiLine + 1])
       IN  IF ~e.ok \/ e.key \in insertedKeys
           THEN UNCHANGED <<pc, exit, store, insertedKeys>>
           ELSE /\ insertedKeys' = insertedKeys \cup {e.key}
                /\ \/ /\ SqlInsert(store, e.key, e.organization).how = "ok"
                      /\ store' = SqlInsert(store, e.key, e.organization).store
                      /\ UNCHANGED <<pc, exit>>
                   \/ /\ Abort("fatal")
                      /\ UNCHANGED store
    /\ UNCHANGED <<driver, mode, store0, ouiFile, ouiToOrganizationToInsert, readVars, printVars>>

\* insertIntoDB writing its pairs one by one and stopping before the last.
insertIntoDB_Partial(st, batch) ==
    LET last == CHOOSE k \in DOMAIN batch : TRUE
    IN  [st EXCEPT !.bucket = TRUE,
                   !.kv = PutAll(st.kv, [k \in DOMAIN batch \ {last} |-> batch[k]])]

\* insertIntoDB's transaction, committed: the bucket exists and holds the
\* batch.
insertIntoDB(st, batch) == [st EXCEPT !.bucket = TRUE, !.kv = PutAll(st.kv, batch)]

\* BoltScanLine without the skip of keys this run has seen already: a later
\* line of the same key overwrites the earlier one.
BoltScanLine_Overwrites ==
    /\ pc = "ouiScan"
    /\ driver = "bolt"
    /\ ouiLine < Len(ouiFile)
    /\ ouiLine' = ouiLine + 1
    /\ LET e == OuiEntry(ouiFile[ouiLine + 1])
           batch == PutAll(ouiToOrganizationToInsert, e.key :> e.organization)
       IN  IF ~e.ok
           THEN UNCHANGED <<pc, exit, store, insertedKeys, ouiToOrganizationToInsert>>
           ELSE /\ insertedKeys' = insertedKeys \cup {e.key}
                /\ IF Cardinality(DOMAIN batch) >= ouiDBWriteTXSize
                   THEN \/ /\ store' = insertIntoDB(store, batch)
                           /\ ouiToOrganizationToInsert' = EmptyMap
                           /\ UNCHANGED <<pc, exit>>
                        \/ /\ Abort("fatal")
                           /\ ouiToOrganizationToInsert' = batch
                           /\ UNCHANGED store
                   ELSE /\ ouiToOrganizationToInsert' = batch
                        /\ UNCHANGED <<pc, exit, store>>
    /\ UNCHANGED <<driver, mode, store0, ouiFile, readVars, printVars>>

\* bolt revision, one pass of the scan loop: an accepted line whose key this
\* run has not seen joins the batch, and a batch of ouiDBWriteTXSize is
\* written in one transaction, which commits or is fatal.
BoltScanLine ==
    /\ pc = "ouiScan"
    /\ driver = "bolt"
    /\ ouiLine < Len(ouiFile)
    /\ ouiLine' = ouiLine + 1
    /\ LET e == OuiEntry(ouiFile[ouiLine + 1])
           batch == PutAll(ouiToOrganizationToInsert, e.key :> e.organization)
       IN  IF ~e.ok \/ e.key \in insertedKeys
           THEN UNCHANGED <<pc, exit, store, insertedKeys, ouiToOrganizationToInsert>>
           ELSE /\ insertedKeys' = insertedKeys \cup {e.key}
                /\ IF Cardinality(DOMAIN batch) >= ouiDBWriteTXSize
                   THEN \/ /\ store' = insertIntoDB(store, batch)
                           /\ ouiToOrganizationToInsert' = EmptyMap
                           /\ UNCHANGED <<pc, exit>>
                        \/ /\ Abort("fatal")
                           /\ ouiToOrganizationToInsert' = batch
                           /\ UNCHANGED store
                   ELSE /\ ouiToOrganizationToInsert' = batch
                        /\ UNCHANGED <<pc, exit, store>>
    /\ UNCHANGED <<driver, mode, store0, ouiFile, readVars, printVars>>

\* scanner.Scan() stops on a read error: scanner.Err() is fatal.
OuiScanError ==
    /\ pc = "ouiScan"
    /\ ouiLine < Len(ouiFile)
    /\ Abort("fatal")
    /\ UNCHANGED <<driver, mode, storeVars, buildVars, readVars, printVars>>

\* sqlite revision, end of the registry.
SqlScanEnd ==
    /\ pc = "ouiScan"
    /\ driver = "sqlite"
    /\ ouiLine = Len(ouiFile)
    /\ pc' = "exited"
    /\ exit' = "ok"
    /\ UNCHANGED <<driver, mode, storeVars, buildVars, readVars, printVars>>

\* BoltScanEnd without the flush of what is left of the batch.
BoltScanEnd_NoFinalFlush ==
    /\ pc = "ouiScan"
    /\ driver = "bolt"
    /\ ouiLine = Len(ouiFile)
    /\ pc' = "exited"
    /\ exit' \in IF DOMAIN ouiToOrganizationToInsert # {} THEN {"ok", "fatal"} ELSE {"ok"}
    /\ UNCHANGED <<store, ouiToOrganizationToInsert>>
    /\ UNCHANGED <<driver, mode, store0, ouiFile, ouiLine, insertedKeys, readVars, printVars>>

\* bolt revision, end of the registry: what is left of the batch is written.
BoltScanEnd ==
    /\ pc = "ouiScan"
    /\ driver = "bolt"
    /\ ouiLine = Len(ouiFile)
    /\ pc' = "exited"
    /\ IF DOMAIN ouiToOrganizationToInsert # {}
       THEN \/ /\ store' = insertIntoDB(store, ouiToOrganizationToInsert)
               /\ ouiToOrganizationToInsert' = EmptyMap
               /\ exit' = "ok"
            \/ /\ exit' = "fatal"
               /\ UNCHANGED <<store, ouiToOrganizationToInsert>>
       ELSE /\ exit' = "ok"
            /\ UNCHANGED <<store, ouiToOrganizationToInsert>>
    /\ UNCHANGED <<driver, mode, store0, ouiFile, ouiLine, insertedKeys, readVars, printVars>>

-----------------------------------------------------------------------------
(* printLeaseMap                                                           *)

UNKNOWN == "UNKNOWN"

\* sqlite revision: SELECT organization FROM oui WHERE oui = key.  The query
\* is an error when the file cannot be opened read-only or has no oui table.
QueryOrganization(st, key) ==
    IF ~st.file \/ ~st.bucket THEN [how |-> "fatal", organization |-> UNKNOWN]
    ELSE [how |-> "ok",
          organization |-> IF key \in DOMAIN st.kv THEN st.kv[key] ELSE UNKNOWN]

\* bolt revision: tx.Bucket(ouiToOrganizationBucket).Get(key) inside db.View.
\* Without the bucket tx.Bucket returns nil and Get dereferences it.
ViewOrganization(st, key) ==
    IF ~st.bucket THEN [how |-> "panic", organization |-> UNKNOWN]
    ELSE [how |-> "ok",
          organization |-> IF key \in DOMAIN st.kv THEN st.kv[key] ELSE UNKNOWN]

\* The organization lookup of the revision that runs.
Lookup(st, key) ==
    IF driver = "sqlite" THEN QueryOrganization(st, key) ELSE ViewOrganization(st, key)

\* The vendor lookup of one record's row: the key is the first 8 characters
\* of the MAC string, lower-cased; macString[0:8] is out of range (a panic)
\* when the string is shorter, as the empty string of a nil MAC is.
OrganizationOf(st, leaseInfo) ==
    LET macString == MACString(leaseInfo.macAddress)
    IN  IF Len(macString) < 8 THEN [how |-> "panic", organization |-> UNKNOWN]
        ELSE Lookup(st, ToLower(SubSeq(macString, 1, 8)))

\* sort.Slice by bytes.Compare(a, b) < 0, on addresses that all differ.
RECURSIVE SortIPs(_)
SortIPs(ips) ==
    IF ips = {} THEN << >>
    ELSE LET least == CHOOSE a \in ips : \A b \in ips \ {a} : BytesLess(a, b)
         IN  << least >> \o SortIPs(ips \ {least})

Pad2(n) == IF n < 10 THEN "0" \o Itoa(n) ELSE Itoa(n)

\* Time.Format(ouputTimeFormatString), without the zone offset.
FormatTime(t) ==
    Itoa(t[1]) \o "/" \o Pad2(t[2]) \o "/" \o Pad2(t[3]) \o " "
        \o Pad2(t[4]) \o ":" \o Pad2(t[5]) \o ":" \o Pad2(t[6])

TitleLines ==
    << << >>,
       <<"IP", "MAC", "Count", "Hostname", "Start Time", "End Time",
         "Last Transaction Time", "Organization">>,
       <<"#">> >>

\* printLeaseMap up to its loop: the store is opened (the bolt revision
\* needs the file to exist; sql.Open opens nothing yet), the title lines are
\* logged and the addresses are sorted.
PrintOpen ==
    /\ pc = "printLeaseMap"
    /\ \/ /\ driver = "bolt" => store.file
          /\ output' = TitleLines
          /\ ipAddresses' = SortIPs({ leaseMap[k].ipAddress : k \in DOMAIN leaseMap })
          /\ pc' = "rows"
          /\ UNCHANGED exit
       \/ /\ driver = "bolt"
          /\ Abort("fatal")
          /\ UNCHANGED <<output, ipAddresses>>
    /\ UNCHANGED <<driver, mode, storeVars, buildVars, readVars, rowIndex, leaseStates>>

\* One pass of the loop over the sorted addresses: the row of one record.
PrintRow ==
    /\ pc = "rows"
    /\ rowIndex < Len(ipAddresses)
    /\ rowIndex' = rowIndex + 1
    /\ LET ipString == IPString(ipAddresses[rowIndex + 1])
           leaseInfo == leaseMap[ipString]
           macString == MACString(leaseInfo.macAddress)
           r == OrganizationOf(store, leaseInfo)
       IN  IF r.how # "ok"
           THEN Abort(r.how) /\ UNCHANGED output
           ELSE \/ /\ output' = Append(output,
                          <<ipString, macString, Itoa(leaseInfo.count),
                            leaseInfo.hostname, FormatTime(leaseInfo.startTime),
                            FormatTime(leaseInfo.endTime),
                            FormatTime(leaseInfo.clttTime), r.organization>>)
                   /\ UNCHANGED <<pc, exit>>
                \/ /\ Abort("fatal")
                   /\ UNCHANGED output
    /\ UNCHANGED <<driver, mode, storeVars, buildVars, readVars, ipAddresses, leaseStates>>

\* The loop is over: printLeaseMap and main return.
PrintDone ==
    /\ pc = "rows"
    /\ rowIndex = Len(ipAddresses)
    /\ pc' = "exited"
    /\ exit' = "ok"
    /\ UNCHANGED <<driver, mode, storeVars, buildVars, readVars, printVars>>

-----------------------------------------------------------------------------
(* The lease state classifier.  No revision of the program at hand has it: *)
(* it is modelled from its specification, a function of (abandoned,        *)
(* startTime, endTime, now) applied to every reconciled record with one    *)
(* `now` for all of them.                                                  *)

\* State with Past decided before Future.
State_PastBeforeFuture(abandoned, startTime, endTime, now) ==
    IF abandoned THEN "Abandoned"
    ELSE IF After(now, endTime) THEN "Past"
    ELSE IF LexLess(now, startTime) THEN "Future"
    ELSE "Current"

\* Abandoned if the flag is set; Future if now < startTime; Current if
\* startTime <= now <= endTime; Past otherwise.
State(abandoned, startTime, endTime, now) ==
    IF abandoned THEN "Abandoned"
    ELSE IF LexLess(now, startTime) THEN "Future"
    ELSE IF ~After(now, endTime) THEN "Current"
    ELSE "Past"

\* Blocks with both times, with a start only, with an end only, with none.
ClassifyChunks ==
    { << "lease 10.0.0.5 {", Starts1, Ends1, Close >>,
      << "lease 10.0.0.5 {", Starts1, Close >>,
      << "lease 10.0.0.10 {", Ends1, Close >>,
      << "lease 10.0.0.10 {", Close >> }

\* The instants `now` is drawn from: before, at, between, at and after
\* the times of Starts1 and Ends1.
Nows ==
    { <<2023, 12, 31, 23, 59, 59>>, <<2024, 1, 1, 0, 0, 0>>, <<2024, 1, 1, 0, 30, 0>>,
      <<2024, 1, 1, 1, 0, 0>>, <<2024, 1, 1, 1, 0, 1>> }

\* The classifier's pass over the reconciled records, with one `now`; the
\* abandoned flag of each record is as its blocks set it, here any.
Classify ==
    /\ pc = "printLeaseMap"
    /\ pc' = "classified"
    /\ \E now \in Nows, abandoned \in [DOMAIN leaseMap -> BOOLEAN] :
          leaseStates' =
              [now |-> now, abandoned |-> abandoned,
               state |-> [k \in DOMAIN leaseMap |->
                            State(abandoned[k], leaseMap[k].startTime,
                                  leaseMap[k].endTime, now)]]
    /\ UNCHANGED <<driver, mode, exit, storeVars, buildVars, readVars,
                   ipAddresses, rowIndex, output>>

\* readLeasesFile followed by the classifier, on every log of at most
\* MaxClassifyChunks chunks of ClassifyChunks.
InitClassify == Init /\ mode = "report" /\ driver = "bolt"

NextClassify ==
    \/ Main
    \/ OpenLeasesFile
    \/ MoreInput(ClassifyChunks, MaxClassifyChunks)
    \/ ReadLine
    \/ ScanDone
    \/ Classify

SpecClassify == InitClassify /\ [][NextClassify]_vars

-----------------------------------------------------------------------------
(* The whole program, run after run against the same ./oui.db.             *)

\* The lease logs of the whole-program specification are made of these.
ReportChunks ==
    { << "lease 10.0.0.5 {", Starts1, Ends1, Cltt1, "  binding state active;", Mac1, HostA, Close >>,
      << "lease 10.0.0.5 {", Ends1, HostB, Close >>,
      << "lease 10.0.0.10 {", Ends1, Mac2, HostA, Close >>,
      << "lease ::1 {", Ends2, Mac1, Close >>,
      << "lease bogus {", Ends1, HostA, Close >>,
      << "lease 10.0.0.5 {", "  ends never;", Close >> }

\* The process has ended; the program is started again, in either mode.
Restart ==
    /\ pc = "exited"
    /\ pc' = "main"
    /\ exit' = ""
    /\ mode' \in {"createdb", "report"}
    /\ store0' = store
    /\ ouiFile' = << >>
    /\ ouiLine' = 0
    /\ insertedKeys' = {}
    /\ ouiToOrganizationToInsert' = EmptyMap
    /\ leasesFile' = << >>
    /\ nChunks' = 0
    /\ lineNumber' = 0
    /\ withinLease' = FALSE
    /\ currentIP' = NilIP
    /\ currentLeaseInfo' = << >>
    /\ leaseMap' = EmptyMap
    /\ ipAddresses' = << >>
    /\ rowIndex' = 0
    /\ output' = << >>
    /\ leaseStates' = << >>
    /\ UNCHANGED <<driver, store>>

Next ==
    \/ Main
    \/ CreateTable
    \/ BoltOpen
    \/ OpenOuiFile
    \/ MoreOui
    \/ SqlScanLine
    \/ BoltScanLine
    \/ OuiScanError
    \/ SqlScanEnd
    \/ BoltScanEnd
    \/ OpenLeasesFile
    \/ MoreInput(ReportChunks, MaxReportChunks)
    \/ ReadLine
    \/ ScanError
    \/ ScanDone
    \/ PrintOpen
    \/ PrintRow
    \/ PrintDone
    \/ Restart

Spec == Init /\ [][Next]_vars

-----------------------------------------------------------------------------
(* The lease log read so far, taken apart into its blocks independently of *)
(* the scan loop: what the properties of readLeasesFile are stated against.*)

Consumed == SubSeq(leasesFile, 1, lineNumber)

IsHeaderLine(raw) ==
    HasPrefix(TrimSpace(raw), "lease ") /\ HasSuffix(TrimSpace(raw), " {")

IsCloseLine(raw) == HasPrefix(TrimSpace(raw), "}")

\* The closed blocks of `lines`, each [hdr, close] (line numbers), in file
\* order, and the header of the block still open at the end (0: none).
RECURSIVE BlocksFrom(_, _, _, _)
BlocksFrom(lines, i, open, acc) ==
    IF i > Len(lines) THEN [blocks |-> acc, open |-> open]
    ELSE IF open = 0
         THEN BlocksFrom(lines, i + 1, IF IsHeaderLine(lines[i]) THEN i ELSE 0, acc)
         ELSE IF IsCloseLine(lines[i])
              THEN BlocksFrom(lines, i + 1, 0, Append(acc, [hdr |-> open, close |-> i]))
              ELSE BlocksFrom(lines, i + 1, open, acc)

Blocks(lines) == BlocksFrom(lines, 1, 0, << >>).blocks
OpenHeader(lines) == BlocksFrom(lines, 1, 0, << >>).open

HeaderLiteral(raw) == Split(TrimSpace(raw), " ")[2]

\* The address a block is for, and the key its record is stored under.
BlockIP(lines, b) == ParseIP(HeaderLiteral(lines[b.hdr]))
BlockKey(lines, b) == IPString(BlockIP(lines, b))

\* The last line of block b that starts with prefix (0: none).
LastLine(lines, b, prefix) ==
    LET hits == { i \in (b.hdr + 1)..(b.close - 1) : HasPrefix(TrimSpace(lines[i]), prefix) }
    IN  IF hits = {} THEN 0 ELSE CHOOSE i \in hits : \A j \in hits : j <= i

BlockTime(lines, b, prefix) ==
    LET i == LastLine(lines, b, prefix)
    IN  IF i = 0 THEN ZeroTime
        ELSE LET split == Split(TrimSpace(lines[i]), " ")
             IN  ParseInLocation(split[3] \o " " \o split[4]).t

BlockMAC(lines, b) ==
    LET i == LastLine(lines, b, "hardware ethernet ")
    IN  IF i = 0 THEN NilMAC
        ELSE ParseMAC(Split(Split(TrimSpace(lines[i]), " ")[3], ";")[1]).mac

BlockHostname(lines, b) ==
    LET i == LastLine(lines, b, "client-hostname ")
    IN  IF i = 0 THEN "" ELSE Split(TrimSpace(lines[i]), "\"")[2]

\* The observation a closed block stands for.
BlockRecord(lines, b) ==
    [ipAddress |-> BlockIP(lines, b), count |-> 1,
     startTime |-> BlockTime(lines, b, "starts"), endTime |-> BlockTime(lines, b, "ends"),
     clttTime |-> BlockTime(lines, b, "cltt"), macAddress |-> BlockMAC(lines, b),
     hostname |-> BlockHostname(lines, b)]

\* The closed blocks stored under key k, in file order.
BlocksOf(lines, k) ==
    LET bs == Blocks(lines)
    IN  SelectSeq(bs, LAMBDA b : BlockKey(lines, b) = k)

KeysOf(lines) ==
    LET bs == Blocks(lines)
    IN  { BlockKey(lines, bs[i]) : i \in 1..Len(bs) }

\* Line numbers of the headers that opened a block (closed or still open).
OpeningHeaders(lines) ==
    LET r == BlocksFrom(lines, 1, 0, << >>)
    IN  { r.blocks[i].hdr : i \in 1..Len(r.blocks) } \cup (IF r.open = 0 THEN {} ELSE {r.open})

\* Among the blocks bs, the first whose endTime no other block's exceeds.
FirstLatest(lines, bs) ==
    LET top(i) == \A j \in 1..Len(bs) :
                      ~After(BlockTime(lines, bs[j], "ends"), BlockTime(lines, bs[i], "ends"))
    IN  bs[CHOOSE i \in 1..Len(bs) : top(i) /\ \A j \in 1..(i - 1) : ~top(j)]

\* Number of blocks of bs that reach the latest endTime.
NumLatest(lines, bs) ==
    Cardinality({ i \in 1..Len(bs) :
                    \A j \in 1..Len(bs) :
                        ~After(BlockTime(lines, bs[j], "ends"), BlockTime(lines, bs[i], "ends")) })

\* readLeasesFile's scan loop run over `lines` from its start.
RECURSIVE ScanFrom(_, _, _)
ScanFrom(lines, i, st) ==
    IF i > Len(lines) \/ st.how # "ok" THEN st
    ELSE ScanFrom(lines, i + 1,
                  ScanLine(lines[i], st.withinLease, st.currentIP, st.currentLeaseInfo, st.leaseMap))

ScanAll(lines) == ScanFrom(lines, 1, Same("ok", FALSE, NilIP, << >>, EmptyMap))

\* The lines of the blocks bs, the blocks taken in the order p.
RECURSIVE Reordered(_, _, _, _)
Reordered(lines, bs, p, i) ==
    IF i > Len(bs) THEN << >>
    ELSE SubSeq(lines, bs[p[i]].hdr, bs[p[i]].close) \o Reordered(lines, bs, p, i + 1)

Selection(r) == <<r.endTime, r.startTime, r.macAddress, r.hostname>>

Returned == pc = "printLeaseMap"

-----------------------------------------------------------------------------
(* Properties of readLeasesFile (checked under SpecLeases).                *)

NilKey == IPString(NilIP)

\* C1: at every point of the scan, each IP address that has closed blocks has
\* a record whose count is the number of those blocks, whatever their order,
\* and no other IP address has a record.
CountIsNumberOfClosedBlocks ==
    LET bs == Blocks(Consumed)
        key == [i \in 1..Len(bs) |-> BlockKey(Consumed, bs[i])]
        keys == { key[i] : i \in 1..Len(bs) }
    IN  /\ \A k \in keys :
              /\ k \in DOMAIN leaseMap
              /\ leaseMap[k].count = Cardinality({ i \in 1..Len(bs) : key[i] = k })
        /\ \A k \in DOMAIN leaseMap : k \in keys

\* Three blocks of 10.0.0.5 have been merged and the log is finished.
CountedThreeBlocks ==
    /\ Returned
    /\ "10.0.0.5" \in DOMAIN leaseMap
    /\ leaseMap["10.0.0.5"].count = 3

\* C2 (as claimed): the returned map has as many records as there are
\* distinct IP addresses in the headers of closed blocks (counting the
\* addresses, or else counting the literals).
OneRecordPerHeaderAddress ==
    Returned =>
        LET bs == Blocks(Consumed)
            addresses == { BlockIP(Consumed, bs[i]) : i \in 1..Len(bs) } \ {NilIP}
            literals == { HeaderLiteral(Consumed[bs[i].hdr]) : i \in 1..Len(bs) }
        IN  \/ Cardinality(DOMAIN leaseMap) = Cardinality(addresses)
            \/ Cardinality(DOMAIN leaseMap) = Cardinality(literals)

\* C3 (as claimed): the blocks of one IP address, fed to readLeasesFile in
\* any order, leave a record with the same endTime, startTime, macAddress
\* and hostname.
SelectionIsOrderIndependent ==
    Returned =>
        \A k \in DOMAIN leaseMap \ {NilKey} :
            LET bs == BlocksOf(Consumed, k)
            IN  \A p \in Permutations(1..Len(bs)) :
                    Selection(ScanAll(Reordered(Consumed, bs, p, 1)).leaseMap[k])
                        = Selection(leaseMap[k])

\* C3 (amended): in any order the blocks of one IP address leave a record
\* with the same endTime and count; startTime, macAddress and hostname are
\* the same too when only one of the blocks has the latest endTime.
SelectionIsOrderIndependentUpToTies ==
    Returned =>
        \A k \in DOMAIN leaseMap \ {NilKey} :
            LET bs == BlocksOf(Consumed, k)
                single == NumLatest(Consumed, bs) = 1
            IN  \A p \in Permutations(1..Len(bs)) :
                    LET r == ScanAll(Reordered(Consumed, bs, p, 1)).leaseMap[k]
                    IN  /\ r.endTime = leaseMap[k].endTime
                        /\ r.count = leaseMap[k].count
                        /\ single => Selection(r) = Selection(leaseMap[k])

\* The log is finished and some IP address has several blocks, exactly one
\* with the latest endTime, and that one is not the last of them.
LatestBlockIsNotLast ==
    /\ Returned
    /\ \E k \in DOMAIN leaseMap \ {NilKey} :
          LET bs == BlocksOf(Consumed, k)
          IN  /\ Len(bs) >= 2
              /\ NumLatest(Consumed, bs) = 1
              /\ FirstLatest(Consumed, bs) # bs[Len(bs)]

\* C4: when the log is finished the record of each key carries the fields of
\* the first of its closed blocks whose endTime no other of them exceeds.
KeepsFirstOfLatest ==
    Returned =>
        \A k \in DOMAIN leaseMap :
            LET bs == BlocksOf(Consumed, k)
            IN  /\ Len(bs) > 0
                /\ [leaseMap[k] EXCEPT !.count = 1]
                       = BlockRecord(Consumed, FirstLatest(Consumed, bs))

\* The log is finished and two blocks of one IP address share the latest
\* endTime but differ in their other fields.
TieBetweenDifferentBlocks ==
    /\ Returned
    /\ \E k \in DOMAIN leaseMap \ {NilKey} :
          LET bs == BlocksOf(Consumed, k)
          IN  \E i, j \in 1..Len(bs) :
                /\ i < j
                /\ FirstLatest(Consumed, bs) = bs[i]
                /\ BlockTime(Consumed, bs[j], "ends") = BlockTime(Consumed, bs[i], "ends")
                /\ BlockRecord(Consumed, bs[j]) # BlockRecord(Consumed, bs[i])

\* The scan loop is about to close a block whose key has a record already.
AtMerge ==
    /\ pc = "scan"
    /\ lineNumber < Len(leasesFile)
    /\ withinLease
    /\ currentLeaseInfo # << >>
    /\ IsCloseLine(leasesFile[lineNumber + 1])
    /\ IPString(currentIP) \in DOMAIN leaseMap

\* C5: one merge step sums the counts; a strictly later endTime makes the
\* new block's fields replace the record's, otherwise the record keeps all
\* its fields but count.
MergeStepSumsAndSelects ==
    [][ (AtMerge /\ lineNumber' = lineNumber + 1) =>
            LET k == IPString(currentIP)
                new == currentLeaseInfo[1]
                old == leaseMap[k]
                sum == old.count + new.count
            IN  /\ leaseMap'[k].count = sum
                /\ IF After(new.endTime, old.endTime)
                   THEN leaseMap'[k] = [new EXCEPT !.count = sum]
                   ELSE leaseMap'[k] = [old EXCEPT !.count = sum]
                /\ \A j \in DOMAIN leaseMap \ {k} : leaseMap'[j] = leaseMap[j]
                /\ DOMAIN leaseMap' = DOMAIN leaseMap ]_vars

\* A merge has just replaced a record: the block closed last has the
\* strictly latest endTime of the several blocks of its key.
JustReplaced ==
    /\ pc = "scan"
    /\ lineNumber > 0
    /\ IsCloseLine(leasesFile[lineNumber])
    /\ Len(Blocks(Consumed)) > 0
    /\ LET b == Blocks(Consumed)[Len(Blocks(Consumed))]
           bs == BlocksOf(Consumed, BlockKey(Consumed, b))
       IN  /\ b.close = lineNumber
           /\ Len(bs) >= 2
           /\ NumLatest(Consumed, bs) = 1
           /\ FirstLatest(Consumed, bs) = b
           /\ leaseMap[BlockKey(Consumed, b)].count = Len(bs)

\* C7 (as claimed): once a header whose literal is no IP address has opened
\* a block, the run has failed fatally and the map holds no record for it.
UnparseableHeaderIsFatal ==
    (\E i \in OpeningHeaders(Consumed) : ParseIP(HeaderLiteral(Consumed[i])) = NilIP)
        => (exit = "fatal" /\ NilKey \notin DOMAIN leaseMap)

\* C8: a log that ends inside a block is returned without an abort, and the
\* map holds exactly the closed blocks' keys with their closed blocks' counts.
OpenBlockAtEndIsDropped ==
    /\ [](Returned /\ OpenHeader(Consumed) # 0 =>
            LET bs == Blocks(Consumed)
                key == [i \in 1..Len(bs) |-> BlockKey(Consumed, bs[i])]
            IN  /\ exit = ""
                /\ DOMAIN leaseMap = { key[i] : i \in 1..Len(bs) }
                /\ \A k \in DOMAIN leaseMap :
                      leaseMap[k].count = Cardinality({ i \in 1..Len(bs) : key[i] = k }))
    /\ [][ (pc = "scan" /\ lineNumber = Len(leasesFile) /\ withinLease /\ pc' # pc) =>
             (pc' = "printLeaseMap" /\ exit' = "" /\ leaseMap' = leaseMap) ]_vars

\* The log ended inside a block of an IP address that has a record from an
\* earlier, closed block.
EndedInsideBlockOfKnownIP ==
    /\ Returned
    /\ OpenHeader(Consumed) # 0
    /\ currentLeaseInfo # << >>
    /\ IPString(currentIP) \in DOMAIN leaseMap

-----------------------------------------------------------------------------
(* Properties of the whole program (checked under Spec).                   *)

Aborted == pc = "exited" /\ exit \in {"fatal", "panic"}

\* The rows of the report logged so far (what follows the title lines).
Rows == SubSeq(output, Len(TitleLines) + 1, Len(output))

\* C6 (as claimed): a run that aborts has emitted no row of the report.
AbortLeavesNoPartialReport == Aborted => Rows = << >>

\* A createOuiDB run has come to its end without a fatal error.
BuildDone == pc = "exited" /\ mode = "createdb" /\ exit = "ok"

\* The registry lines read that createOuiDB accepts, and their keys.
Accepted == { i \in 1..ouiLine : OuiEntry(ouiFile[i]).ok }
AcceptedKeys == { OuiEntry(ouiFile[i]).key : i \in Accepted }
LinesOf(k) == { i \in Accepted : OuiEntry(ouiFile[i]).key = k }
FirstLineOf(k) == CHOOSE i \in LinesOf(k) : \A j \in LinesOf(k) : i <= j
LastLineOf(k) == CHOOSE i \in LinesOf(k) : \A j \in LinesOf(k) : j <= i

\* Prefixes looked up: those of the registry lines explored and one of none.
ProbeKeys == {"00:50:c2", "aa:bb:cc", "00:11:22", "ff:ff:ff"}

Found(org) == [how |-> "ok", organization |-> org]

\* C9 (as claimed): after a build into a store that did not exist, the
\* lookup of every inserted prefix returns the organization written for it
\* and the lookup of a prefix of no accepted line returns the unknown marker.
BuildThenLookupRoundTrip ==
    (BuildDone /\ store0 = NoStore) =>
        /\ \A k \in AcceptedKeys :
              Lookup(store, k) = Found(OuiEntry(ouiFile[FirstLineOf(k)]).organization)
        /\ \A k \in ProbeKeys \ AcceptedKeys : Lookup(store, k) = Found(UNKNOWN)

\* C10 (as claimed): after a build, a prefix of several accepted lines is
\* mapped to the organization of the last of them.
LastDuplicateWins ==
    BuildDone =>
        \A k \in AcceptedKeys :
            /\ k \in DOMAIN store.kv
            /\ store.kv[k] = OuiEntry(ouiFile[LastLineOf(k)]).organization

\* C10 (amended): after a build that ends without a fatal error, a prefix of
\* several accepted lines is mapped to the organization of the first of
\* them; the later lines of the prefix are skipped.
FirstDuplicateWins ==
    BuildDone =>
        \A k \in AcceptedKeys :
            /\ k \in DOMAIN store.kv
            /\ store.kv[k] = OuiEntry(ouiFile[FirstLineOf(k)]).organization

\* A build has ended well on a registry with two accepted lines of one
\* prefix and different organizations.
BuiltFromDuplicates ==
    /\ BuildDone
    /\ \E k \in AcceptedKeys :
          OuiEntry(ouiFile[FirstLineOf(k)]).organization
              # OuiEntry(ouiFile[LastLineOf(k)]).organization

-----------------------------------------------------------------------------
(* Properties of the report's vendor lookup (checked under Spec).          *)

\* The report loop is about to handle a row; NextRecord is its record.
AtRow == pc = "rows" /\ rowIndex < Len(ipAddresses)

NextRecord == leaseMap[IPString(ipAddresses[rowIndex + 1])]

\* C11 (as claimed): with a vendor store that was never built (no file, or
\* a file without the table or bucket) the lookup of every record that has
\* a MAC address returns the unknown marker and does not end the run.
NeverBuiltStoreYieldsUnknown ==
    (AtRow /\ ~store.bucket /\ NextRecord.macAddress # NilMAC)
        => OrganizationOf(store, NextRecord) = Found(UNKNOWN)

\* C12 (as claimed): with a built vendor store the lookup of every record,
\* one without a MAC address included, returns the stored organization or
\* the unknown marker and does not end the run.
LookupNeverAborts ==
    (AtRow /\ store.bucket)
        => LET r == OrganizationOf(store, NextRecord)
           IN  /\ r.how = "ok"
               /\ r.organization \in {UNKNOWN} \cup { store.kv[k] : k \in DOMAIN store.kv }

-----------------------------------------------------------------------------
(* Properties of createOuiDB (checked under Spec).                         *)

\* The scan loop of createOuiDB is about to handle a registry line.
AtOuiLine == pc = "ouiScan" /\ ouiLine < Len(ouiFile)

\* The entries createOuiDB holds: those in the store and those pending.
Held == PutAll(store.kv, ouiToOrganizationToInsert)

\* The rule of acceptance, and the key of an accepted line, as the
\* registry format has them.
LowerOf == [c \in Digits \cup LowerHex \cup UpperHex |->
               CASE c = "A" -> "a" [] c = "B" -> "b" [] c = "C" -> "c"
                 [] c = "D" -> "d" [] c = "E" -> "e" [] c = "F" -> "f" [] OTHER -> c]

Acceptable(line) ==
    /\ Len(line) >= 23
    /\ \A i \in 1..6 : SubSeq(line, i, i) \in DOMAIN LowerOf

KeyOfLine(line) ==
    LET c(i) == LowerOf[SubSeq(line, i, i)]
    IN  c(1) \o c(2) \o ":" \o c(3) \o c(4) \o ":" \o c(5) \o c(6)

\* C13: a pass of createOuiDB's scan loop over a line that (trimmed) is
\* shorter than 23 characters or does not start with 6 hexadecimal digits
\* changes nothing and does not end the run; over another line whose key
\* this run has not met, it adds the entry (first 6 characters lower-cased,
\* colon after every 2) -> (the line from column 22 on) unless the run ends.
RegistryLineRule ==
    [][ (AtOuiLine /\ ouiLine' = ouiLine + 1) =>
            LET line == TrimSpace(ouiFile[ouiLine + 1])
            IN  IF ~Acceptable(line)
                THEN UNCHANGED <<pc, exit, store, ouiToOrganizationToInsert, insertedKeys>>
                ELSE LET k == KeyOfLine(line)
                         v == SubSeq(line, 23, Len(line))
                     IN  IF k \in insertedKeys
                         THEN UNCHANGED <<pc, exit, store, ouiToOrganizationToInsert, insertedKeys>>
                         ELSE /\ insertedKeys' = insertedKeys \cup {k}
                              /\ pc' = pc =>
                                    PutAll(store'.kv, ouiToOrganizationToInsert')
                                        = PutAll(Held, k :> v) ]_vars

\* A build has ended well after skipping a line that is long enough but
\* does not start with hexadecimal digits, and after accepting a line
\* whose prefix is in upper case.
SkippedAndAccepted ==
    /\ BuildDone
    /\ \E i \in 1..ouiLine :
          Len(TrimSpace(ouiFile[i])) >= 23 /\ ~Acceptable(TrimSpace(ouiFile[i]))
    /\ \E i \in 1..ouiLine :
          /\ Acceptable(TrimSpace(ouiFile[i]))
          /\ SubSeq(ouiFile[i], 1, 6) # SubSeq(KeyOfLine(ouiFile[i]), 1, 2)
                 \o SubSeq(KeyOfLine(ouiFile[i]), 4, 5) \o SubSeq(KeyOfLine(ouiFile[i]), 7, 8)
          /\ KeyOfLine(ouiFile[i]) \in DOMAIN store.kv

\* C14: when a build ends without a fatal error nothing is left in the
\* pending batch and the store maps the key of every accepted line to the
\* organization of an accepted line of that key.
BuildFlushesEverything ==
    BuildDone =>
        /\ ouiToOrganizationToInsert = EmptyMap
        /\ \A i \in 1..ouiLine :
              Acceptable(TrimSpace(ouiFile[i])) =>
                  LET k == KeyOfLine(TrimSpace(ouiFile[i]))
                  IN  /\ k \in DOMAIN store.kv
                      /\ \E j \in 1..ouiLine :
                            /\ Acceptable(TrimSpace(ouiFile[j]))
                            /\ KeyOfLine(TrimSpace(ouiFile[j])) = k
                            /\ store.kv[k] = SubSeq(TrimSpace(ouiFile[j]), 23,
                                                    Len(TrimSpace(ouiFile[j])))

\* A build of the bolt revision has ended well after a full batch and a
\* last batch smaller than ouiDBWriteTXSize.
EndedWithSmallerBatch ==
    /\ BuildDone
    /\ driver = "bolt"
    /\ Cardinality(AcceptedKeys) > ouiDBWriteTXSize
    /\ Cardinality(AcceptedKeys) % ouiDBWriteTXSize # 0

\* C15: the pending batch never holds more than ouiDBWriteTXSize entries;
\* a step changes the store's entries only by adding the whole batch (the
\* pending entries with the entry of the line at hand), of at most
\* ouiDBWriteTXSize entries, and a step that ends the run in a fatal error
\* leaves the store's entries as the earlier flushes left them.
FlushIsAllOrNothing ==
    /\ [](Cardinality(DOMAIN ouiToOrganizationToInsert) <= ouiDBWriteTXSize)
    /\ [][ LET line == TrimSpace(ouiFile[ouiLine + 1])
               entry == IF AtOuiLine /\ Acceptable(line)
                        THEN KeyOfLine(line) :> SubSeq(line, 23, Len(line))
                        ELSE EmptyMap
               batch == PutAll(ouiToOrganizationToInsert, entry)
           IN  /\ store'.kv \in {store.kv, PutAll(store.kv, batch)}
               /\ store'.kv # store.kv =>
                     /\ Cardinality(DOMAIN batch) <= ouiDBWriteTXSize
                     /\ ouiToOrganizationToInsert' = EmptyMap
               /\ exit' = "fatal" => store'.kv = store.kv ]_vars

\* A build of the bolt revision has ended in a fatal error during a flush,
\* after an earlier flush of this run was committed.
AbortedAfterAFlush ==
    /\ pc = "exited"
    /\ mode = "createdb"
    /\ driver = "bolt"
    /\ exit = "fatal"
    /\ ouiToOrganizationToInsert # EmptyMap
    /\ store.kv # store0.kv

-----------------------------------------------------------------------------
(* Properties of the classifier (checked under SpecClassify).              *)

Classified == pc = "classified"

\* C16 (as claimed): every record is Abandoned whenever its flag is set;
\* otherwise Future when now < startTime, Current when startTime <= now <=
\* endTime, and Past when now > endTime.
ClassifiedAsClaimed ==
    Classified =>
        \A k \in DOMAIN leaseMap :
            LET now == leaseStates.now
                r == leaseMap[k]
                st == leaseStates.state[k]
            IN  /\ st \in {"Abandoned", "Future", "Current", "Past"}
                /\ leaseStates.abandoned[k] => st = "Abandoned"
                /\ ~leaseStates.abandoned[k] =>
                      /\ LexLess(now, r.startTime) => st = "Future"
                      /\ (~LexLess(now, r.startTime) /\ ~LexLess(r.endTime, now))
                            => st = "Current"
                      /\ LexLess(r.endTime, now) => st = "Past"

\* C16 (amended): as claimed, but Past only when now > endTime and
\* now >= startTime: a record whose startTime is later than its endTime is
\* Future, not Past, while now is between the two.
ClassifiedFutureBeforePast ==
    Classified =>
        \A k \in DOMAIN leaseMap :
            LET now == leaseStates.now
                r == leaseMap[k]
                st == leaseStates.state[k]
            IN  /\ st \in {"Abandoned", "Future", "Current", "Past"}
                /\ leaseStates.abandoned[k] => st = "Abandoned"
                /\ ~leaseStates.abandoned[k] =>
                      /\ LexLess(now, r.startTime) => st = "Future"
                      /\ (~LexLess(now, r.startTime) /\ ~LexLess(r.endTime, now))
                            => st = "Current"
                      /\ (LexLess(r.endTime, now) /\ ~LexLess(now, r.startTime))
                            => st = "Past"

\* A record that is not abandoned and whose startTime is later than its
\* endTime has been classified at a `now` between the two.
ClassifiedBetweenEndAndStart ==
    /\ Classified
    /\ \E k \in DOMAIN leaseMap :
          /\ ~leaseStates.abandoned[k]
          /\ LexLess(leaseMap[k].endTime, leaseStates.now)
          /\ LexLess(leaseStates.now, leaseMap[k].startTime)
          /\ leaseStates.state[k] = "Future"

-----------------------------------------------------------------------------
(* Properties of the report (checked under Spec).                          *)

\* A report run has ended after printLeaseMap logged its title lines.
ReportEnded == pc = "exited" /\ mode = "report" /\ output # << >>

\* C17 (as claimed): unless a fatal condition ended the run, the report has
\* exactly one row per record of the lease map, in strictly ascending
\* order of the addresses compared as bytes.
OneRowPerRecordAscending ==
    (ReportEnded /\ exit # "fatal") =>
        /\ Len(Rows) = Cardinality(DOMAIN leaseMap)
        /\ { Rows[i][1] : i \in 1..Len(Rows) } = DOMAIN leaseMap
        /\ \A i \in 1..(Len(Rows) - 1) :
              BytesLess(leaseMap[Rows[i][1]].ipAddress, leaseMap[Rows[i + 1][1]].ipAddress)

\* C18 (as claimed): a build against a store that holds entries of an
\* earlier build does not fail because of them; when it has ended, every
\* prefix of its registry is mapped to its organization there and the other
\* entries are as they were.
RebuildSucceeds ==
    /\ (AtOuiLine /\ driver = "sqlite" /\ OuiEntry(ouiFile[ouiLine + 1]).ok
            /\ OuiEntry(ouiFile[ouiLine + 1]).key \notin insertedKeys)
          => SqlInsert(store, OuiEntry(ouiFile[ouiLine + 1]).key,
                       OuiEntry(ouiFile[ouiLine + 1]).organization).how = "ok"
    /\ BuildDone =>
          /\ \A k \in AcceptedKeys :
                /\ k \in DOMAIN store.kv
                /\ store.kv[k] = OuiEntry(ouiFile[FirstLineOf(k)]).organization
          /\ \A k \in DOMAIN store0.kv \ AcceptedKeys :
                k \in DOMAIN store.kv /\ store.kv[k] = store0.kv[k]
          /\ DOMAIN store.kv = DOMAIN store0.kv \cup AcceptedKeys

\* C19: once printLeaseMap has logged anything readLeasesFile has returned,
\* having consumed the whole lease log, and from then on to the end of the
\* run the lease map and the log stay as they are.
ReportAfterIngestion ==
    /\ [](output # << >> =>
            /\ pc \in {"rows", "exited"}
            /\ mode = "report"
            /\ lineNumber = Len(leasesFile))
    /\ [][ ((output # << >> \/ output' # << >>) /\ pc' # "main")
             => UNCHANGED <<leaseMap, leasesFile, lineNumber>> ]_vars

\* A report of two rows has been completed.
TwoRowsReported ==
    /\ ReportEnded
    /\ exit = "ok"
    /\ Len(Rows) = 2

-----------------------------------------------------------------------------
(* Properties of the scan loop's single passes (checked under SpecLeases). *)

\* The field of the in-progress record a line inside a block sets ("": none).
FieldOf(line) ==
    CASE HasPrefix(line, "starts") -> "startTime"
      [] HasPrefix(line, "ends") -> "endTime"
      [] HasPrefix(line, "cltt") -> "clttTime"
      [] HasPrefix(line, "hardware ethernet ") -> "macAddress"
      [] HasPrefix(line, "client-hostname ") -> "hostname"
      [] OTHER -> ""

FieldNames ==
    {"ipAddress", "count", "startTime", "endTime", "clttTime", "macAddress", "hostname"}

\* C20: a pass of the scan loop changes the lease map only when it is
\* inside a block and the line begins with `}`; inside a block a field line
\* changes nothing of the in-progress record but its own field, and any
\* other line that does not close the block leaves the record as it is.
OnlyCloseLineChangesMap ==
    [][ (pc = "scan" /\ lineNumber' = lineNumber + 1) =>
            LET line == TrimSpace(leasesFile[lineNumber + 1])
            IN  /\ ~(withinLease /\ HasPrefix(line, "}")) => leaseMap' = leaseMap
                /\ ~withinLease => DOMAIN leaseMap' = DOMAIN leaseMap
                /\ (withinLease /\ ~HasPrefix(line, "}")) =>
                      /\ withinLease'
                      /\ Len(currentLeaseInfo') = Len(currentLeaseInfo)
                      /\ currentLeaseInfo # << >> =>
                            \A f \in FieldNames \ {FieldOf(line)} :
                                currentLeaseInfo'[1][f] = currentLeaseInfo[1][f] ]_vars

\* A field line has just been read inside a block of an IP address that
\* has a record in the lease map already, and it set the field.
FieldSetBesideStoredRecord ==
    /\ pc = "scan"
    /\ withinLease
    /\ lineNumber > 0
    /\ FieldOf(TrimSpace(leasesFile[lineNumber])) = "endTime"
    /\ currentLeaseInfo # << >>
    /\ currentLeaseInfo[1].endTime # ZeroTime
    /\ IPString(currentIP) \in DOMAIN leaseMap
    /\ leaseMap[IPString(currentIP)].endTime # currentLeaseInfo[1].endTime

-----------------------------------------------------------------------------
(* Properties of the scan loop's state (checked under SpecLeases).         *)

\* C21: between lines withinLease is true exactly when there is an
\* in-progress record; a header line read inside a block leaves the
\* in-progress record, its address and the map as they are, and a line
\* beginning with `}` read outside a block leaves the map as it is and
\* opens nothing.
InBlockIffRecordInProgress ==
    /\ [](withinLease <=> currentLeaseInfo # << >>)
    /\ [][ (pc = "scan" /\ lineNumber' = lineNumber + 1) =>
             LET raw == leasesFile[lineNumber + 1]
             IN  /\ (withinLease /\ IsHeaderLine(raw)) =>
                       UNCHANGED <<withinLease, currentIP, currentLeaseInfo, leaseMap>>
                 /\ (~withinLease /\ IsCloseLine(raw)) =>
                       UNCHANGED <<withinLease, currentIP, currentLeaseInfo, leaseMap>> ]_vars

\* A header of another address has just been read inside a block, and
\* earlier a line beginning with `}` was read outside any block.
HeaderReadInsideBlock ==
    /\ pc = "scan"
    /\ withinLease
    /\ lineNumber > 1
    /\ IsHeaderLine(leasesFile[lineNumber])
    /\ OpenHeader(Consumed) # lineNumber
    /\ ParseIP(HeaderLiteral(leasesFile[lineNumber])) # currentIP
    /\ \E i \in 1..(lineNumber - 1) :
          IsCloseLine(leasesFile[i]) /\ OpenHeader(SubSeq(leasesFile, 1, i - 1)) = 0

\* C22: no pass of the scan loop removes a key from the lease map, lowers
\* a record's count or moves a record's endTime to an earlier time.
MapGrowsMonotonically ==
    [][ \A k \in DOMAIN leaseMap :
            /\ k \in DOMAIN leaseMap'
            /\ leaseMap'[k].count >= leaseMap[k].count
            /\ ~LexLess(leaseMap'[k].endTime, leaseMap[k].endTime) ]_vars

\* A block whose endTime is earlier than its record's has just been
\* merged: the count went up and the endTime stayed.
MergedAnEarlierBlock ==
    /\ pc = "scan"
    /\ lineNumber > 0
    /\ Len(Blocks(Consumed)) > 0
    /\ LET b == Blocks(Consumed)[Len(Blocks(Consumed))]
           k == BlockKey(Consumed, b)
       IN  /\ b.close = lineNumber
           /\ k \in DOMAIN leaseMap
           /\ leaseMap[k].count >= 2
           /\ LexLess(BlockTime(Consumed, b, "ends"), leaseMap[k].endTime)

=============================================================================
